---- MODULE Spec2Model ----
(***************************************************************************)
(* A model of the xroms core: the isosurface projector xisoslice, the grid *)
(* transform to_grid, the derivatives ddz, ddxi, ddeta, id_grid, the       *)
(* nearest-node selection sel2d / argsel2d and build_indexer of            *)
(* xroms/utilities.py, and the DataArray and Dataset accessors of          *)
(* xroms/accessor.py.                                                      *)
(*                                                                         *)
(* Numbers are IEEE doubles in the program.  They are modelled as exact    *)
(* rationals [n, d] in lowest terms with d > 0, extended with the three    *)
(* special values a division can produce: d = 0 and n = 0 is not-a-number, *)
(* d = 0 and n = 1 is +infinity, d = 0 and n = -1 is -infinity.  The       *)
(* inputs of the model are small integers and half-integers, for which     *)
(* the sums, differences and products of xisoslice are exact in doubles.   *)
(***************************************************************************)
EXTENDS Integers, Sequences, FiniteSets, TLC

VARIABLES
    pc,               \* position of the caller: "idle", then "done", or
                      \* "returned" / "raised" and "identified" (id_grid)
    iso_array,        \* xisoslice argument: one column of samples per remaining index
    iso_value,        \* xisoslice argument: the target value
    projected_array,  \* xisoslice argument: same shape as iso_array
    out,              \* what the last call returned: the values of xisoslice
                      \* (one per column), of a regrid or of hgrad, or the
                      \* position id_grid gave
    var,              \* the DataArray, dataset or accessor the caller holds
    last,             \* the last call: arguments, grid calls issued, outcome
    ncalls            \* number of to_grid, to_s_rho, to_s_w calls or
                      \* accessor operations made so far

isoVars == <<pc, iso_array, iso_value, projected_array, out>>

gridVars == <<var, last, ncalls>>

vars == <<isoVars, gridVars>>

(***************************************************************************)
(* Bounds of the model.                                                    *)
(***************************************************************************)
\* number of samples along the processed axis in the enumerated columns
MaxLen == 3
\* reference samples are the integers 0 .. MaxRef
MaxRef == 2
\* number of successive to_grid calls of a caller
MaxCalls == 2

(***************************************************************************)
(* Floating-point values.                                                  *)
(***************************************************************************)
Abs(x) == IF x < 0 THEN -x ELSE x

Sgn(x) == IF x < 0 THEN -1 ELSE IF x > 0 THEN 1 ELSE 0

RECURSIVE GCD(_, _)
GCD(a, b) == IF b = 0 THEN a ELSE GCD(b, a % b)

\* the rational n/d (d # 0) in lowest terms with a positive denominator
Rat(n, d) ==
    IF d = 1 THEN [n |-> n, d |-> 1]
    ELSE LET g == GCD(Abs(n), Abs(d))
         IN  [n |-> (Sgn(d) * n) \div g, d |-> Abs(d) \div g]

NaN == [n |-> 0, d |-> 0]

Inf(s) == [n |-> s, d |-> 0]

IsNaN(x) == x.d = 0 /\ x.n = 0

IsFinite(x) == x.d > 0

Zero == Rat(0, 1)

One == Rat(1, 1)

Two == Rat(2, 1)

FNeg(a) == [n |-> -a.n, d |-> a.d]

FAdd(a, b) ==
    IF IsNaN(a) \/ IsNaN(b) THEN NaN
    ELSE IF a.d = 0 /\ b.d = 0 THEN (IF a.n = b.n THEN a ELSE NaN)
    ELSE IF a.d = 0 THEN a
    ELSE IF b.d = 0 THEN b
    ELSE Rat(a.n * b.d + b.n * a.d, a.d * b.d)

FSub(a, b) == FAdd(a, FNeg(b))

FMul(a, b) ==
    IF IsNaN(a) \/ IsNaN(b) THEN NaN
    ELSE IF a.d = 0 \/ b.d = 0
         THEN (IF a.n = 0 \/ b.n = 0 THEN NaN ELSE Inf(Sgn(a.n) * Sgn(b.n)))
    ELSE Rat(a.n * b.n, a.d * b.d)

\* A zero divisor of xisoslice is x - x, which is +0.0 whenever the dividend
\* is not zero, so the sign of the quotient is the sign of the dividend.
FDiv(a, b) ==
    IF IsNaN(a) \/ IsNaN(b) THEN NaN
    ELSE IF b.d = 0 THEN (IF a.d = 0 THEN NaN ELSE Zero)
    ELSE IF b.n = 0 THEN (IF a.n = 0 THEN NaN ELSE Inf(Sgn(a.n)))
    ELSE IF a.d = 0 THEN Inf(a.n * Sgn(b.n))
    ELSE Rat(a.n * b.d, a.d * b.n)

\* x <= 0.0, which is False for not-a-number
FLeq0(a) == ~IsNaN(a) /\ a.n <= 0

(***************************************************************************)
(* xisoslice (utilities.py 343-502).  An array is a sequence of columns,   *)
(* one per remaining-index combination; a column is the sequence of the    *)
(* samples along coord.                                                    *)
(***************************************************************************)
\* the sequence s with every element evaluated
Eval(s) == SubSeq(s, 1, Len(s))

\* length of the projected coordinate, minus one
Nm(arr) == Len(arr[1]) - 1

\* isel(coord = slice(None, -1)) and isel(coord = slice(1, None)), re-indexed 0..Nm-1
lslice(arr) == Eval([j \in DOMAIN arr |-> SubSeq(arr[j], 1, Len(arr[j]) - 1)])

uslice(arr) == Eval([j \in DOMAIN arr |-> SubSeq(arr[j], 2, Len(arr[j]))])

\* prop = iso_array - iso_value
prop(arr, val) ==
    Eval([j \in DOMAIN arr |-> Eval([k \in DOMAIN arr[j] |-> FSub(arr[j][k], val)])])

\* mutant of sign_change: the test is < instead of <=
sign_change_strict(pu, pl) ==
    Eval([j \in DOMAIN pl |->
            Eval([k \in DOMAIN pl[j] |->
                    IF FLeq0(FMul(pu[j][k], pl[j][k])) /\ FMul(pu[j][k], pl[j][k]) # Zero
                    THEN One ELSE Zero])])

\* xr.where((propu*propl) <= 0.0, 1.0, 0.0)
sign_change(pu, pl) ==
    Eval([j \in DOMAIN pl |->
            Eval([k \in DOMAIN pl[j] |->
                    IF FLeq0(FMul(pu[j][k], pl[j][k])) THEN One ELSE Zero])])

\* zc, the indicator of the brackets where prop changes sign
zc(arr, val) ==
    LET p == prop(arr, val)
    IN  sign_change(uslice(p), lslice(p))

\* sum of a sequence of values, left to right
RECURSIVE FSum(_)
FSum(s) == IF Len(s) = 0 THEN Zero ELSE FAdd(FSum(SubSeq(s, 1, Len(s) - 1)), s[Len(s)])

\* (x * z).sum(coord), per column
SumAlong(x, z) ==
    Eval([j \in DOMAIN x |-> FSum(Eval([k \in DOMAIN x[j] |-> FMul(x[j][k], z[j][k])]))])

\* mutant of check: zc.sum(coord) >= 2
check_atleast(z) == Eval([j \in DOMAIN z |-> FSum(z[j]) \notin {Zero, One}])

\* mutant of check: zc.sum(coord) >= 1
check_any(z) == Eval([j \in DOMAIN z |-> FSum(z[j]) # Zero])

\* zc.sum(coord) == 2, per column
check(z) == Eval([j \in DOMAIN z |-> FSum(z[j]) = Two])

\* mutant of linearfit: propu in place of propl in the numerator
linearfit_upper(propl, propu, varl, varu) ==
    Eval([j \in DOMAIN propl |->
            FSub(varl[j],
                 FDiv(FMul(propu[j], FSub(varu[j], varl[j])), FSub(propu[j], propl[j])))])

\* mutant of linearfit: varl where propu equals propl
linearfit_guarded(propl, propu, varl, varu) ==
    Eval([j \in DOMAIN propl |->
            IF propu[j] = propl[j] THEN varl[j]
            ELSE FSub(varl[j],
                      FDiv(FMul(propl[j], FSub(varu[j], varl[j])),
                           FSub(propu[j], propl[j])))])

\* out = varl - propl*(varu-varl)/(propu-propl), per column
linearfit(propl, propu, varl, varu) ==
    Eval([j \in DOMAIN propl |->
            FSub(varl[j],
                 FDiv(FMul(propl[j], FSub(varu[j], varl[j])), FSub(propu[j], propl[j])))])

\* mutant of halve: the result is never halved
halve_never(chk, o) == o

\* mutant of halve: every column is halved as soon as one column has check
halve_all(chk, o) ==
    IF \E j \in DOMAIN chk : chk[j]
    THEN Eval([j \in DOMAIN o |-> FDiv(o[j], Two)])
    ELSE o

\* if check.sum() > 0: out = xr.where(check, out/2, out)
halve(chk, o) ==
    IF \E j \in DOMAIN chk : chk[j]
    THEN Eval([j \in DOMAIN o |-> IF chk[j] THEN FDiv(o[j], Two) ELSE o[j]])
    ELSE o

\* lines 485-501 for the indicator z
project(z, pl, pu, vl, vu) ==
    LET propl == SumAlong(pl, z)
        propu == SumAlong(pu, z)
        varl  == SumAlong(vl, z)
        varu  == SumAlong(vu, z)
    IN  halve(check(z), linearfit(propl, propu, varl, varu))

\* lines 434-481 for prop p
bracket(p, proj) ==
    LET propl == lslice(p)
        propu == uslice(p)
        z     == sign_change(propu, propl)
    IN  project(z, propl, propu, lslice(proj), uslice(proj))

xisoslice(arr, val, proj) ==
    LET p == prop(arr, val)
    IN  bracket(p, proj)

\* propu - propl of line 490, after the zc-weighted sums
difference(propl, propu) == Eval([j \in DOMAIN propl |-> FSub(propu[j], propl[j])])

spread(z, pl, pu) ==
    LET propl == SumAlong(pl, z)
        propu == SumAlong(pu, z)
    IN  difference(propl, propu)

denominator(arr, val) ==
    LET p == prop(arr, val)
        z == sign_change(uslice(p), lslice(p))
    IN  spread(z, lslice(p), uslice(p))

(***************************************************************************)
(* The inputs xisoslice is called with.                                    *)
(***************************************************************************)
Ints(s) == [k \in DOMAIN s |-> Rat(s[k], 1)]

\* reference columns: MaxLen samples, each an integer of 0 .. MaxRef
RefColumns == {Ints(s) : s \in [1..MaxLen -> 0..MaxRef]}

\* target values: the integers and half-integers of 0 .. MaxRef
Targets == {Rat(h, 2) : h \in 0..(2 * MaxRef)}

ramp(n) == Ints([k \in 1..n |-> k - 1])

unit(n, i) == Ints([k \in 1..n |-> IF k = i THEN 1 ELSE 0])

\* projected columns for a reference column: the reference itself, the index
\* along coord, a constant, and the indicator of each sample
ProjColumns(ref) ==
    {ref, ramp(Len(ref)), Ints([k \in DOMAIN ref |-> 1])}
        \cup {unit(Len(ref), i) : i \in DOMAIN ref}

\* the second column of a two-column array, as <<reference, projected>>: a
\* ramp, a zig-zag between 0 and MaxRef, or a flat column
OtherColumns(n) ==
    {<<ramp(n), ramp(n)>>,
     <<Ints([k \in 1..n |-> IF k % 2 = 1 THEN 0 ELSE MaxRef]), ramp(n)>>,
     <<Ints([k \in 1..n |-> 1]), ramp(n)>>}

\* the worked examples: the two isosurface scenarios and the exact-match
\* example of the documentation, a flat reference region at the target, and
\* non-monotonic references crossing the target two and three times
Examples ==
    {<<<<Ints(<<0, 1, 2, 3, 4>>)>>, Rat(5, 2), <<Ints(<<0, 1, 2, 3, 4>>)>>>>,
     <<<<Ints(<<10, 8, 6, 4, 2>>)>>, Rat(5, 1), <<Ints(<<0, 1, 2, 3, 4>>)>>>>,
     <<<<Ints(<<0, 1, 2, 3, 4>>)>>, Rat(2, 1), <<Ints(<<0, 1, 2, 3, 4>>)>>>>,
     <<<<Ints(<<1, 2, 2, 3>>)>>, Rat(2, 1), <<Ints(<<0, 1, 2, 3>>)>>>>,
     <<<<Ints(<<0, 3, 1>>)>>, Rat(5, 2), <<Ints(<<1, 0, 0>>)>>>>,
     <<<<Ints(<<0, 2, 0, 2>>)>>, Rat(1, 1), <<Ints(<<1, 1, 1, 1>>)>>>>}

(***************************************************************************)
(* to_grid (utilities.py 108-196).  A DataArray is its tuple of dimension  *)
(* names, its name, and its data, kept as the sequence of the regrid steps *)
(* applied to the original values.                                         *)
(***************************************************************************)
None == "None"

In(d, dims) == \E i \in DOMAIN dims : dims[i] = d

\* the dimension the grid object gives each axis at each position
AxisDim(axis, to) ==
    CASE axis = "X" /\ to = "center" -> "xi_rho"
      [] axis = "X" /\ to = "inner"  -> "xi_u"
      [] axis = "Y" /\ to = "center" -> "eta_rho"
      [] axis = "Y" /\ to = "inner"  -> "eta_v"
      [] axis = "Z" /\ to = "center" -> "s_rho"
      [] axis = "Z" /\ to = "outer"  -> "s_w"

AxisOf(d) ==
    CASE d \in {"xi_rho", "xi_u"}   -> "X"
      [] d \in {"eta_rho", "eta_v"} -> "Y"
      [] d \in {"s_rho", "s_w"}     -> "Z"
      [] OTHER                      -> "T"

\* grid.interp(var, axis, to=to, boundary=boundary): the dimension of the
\* axis moves to the target position; the grid object names the result nm
interp(st, axis, to, boundary, nm) ==
    [da |-> [st.da EXCEPT
               !.dims = [i \in DOMAIN st.da.dims |->
                           IF AxisOf(st.da.dims[i]) = axis
                           THEN AxisDim(axis, to) ELSE st.da.dims[i]],
               !.name = nm,
               !.data = Append(st.da.data, <<axis, to>>)],
     calls |-> Append(st.calls, [axis |-> axis, to |-> to, boundary |-> boundary]),
     names |-> Append(st.names, nm)]

\* st is the DataArray in hand with the grid.interp calls issued so far;
\* nm is the name the grid object gives its results
to_rho(st, boundary, nm) ==
    LET s1 == IF ~In("xi_rho", st.da.dims)
              THEN interp(st, "X", "center", boundary, nm) ELSE st
    IN  IF ~In("eta_rho", s1.da.dims)
        THEN interp(s1, "Y", "center", boundary, nm) ELSE s1

to_psi(st, boundary, nm) ==
    LET s1 == IF ~In("xi_u", st.da.dims)
              THEN interp(st, "X", "inner", boundary, nm) ELSE st
    IN  IF ~In("eta_v", s1.da.dims)
        THEN interp(s1, "Y", "inner", boundary, nm) ELSE s1

\* mutant of to_u: the second test looks for the dimension eta_u
to_u_eta_u(st, boundary, nm) ==
    LET s1 == IF ~In("xi_u", st.da.dims)
              THEN interp(st, "X", "inner", boundary, nm) ELSE st
    IN  IF ~In("eta_u", s1.da.dims)
        THEN interp(s1, "Y", "center", boundary, nm) ELSE s1

to_u(st, boundary, nm) ==
    LET s1 == IF ~In("xi_u", st.da.dims)
              THEN interp(st, "X", "inner", boundary, nm) ELSE st
    IN  IF ~In("eta_rho", s1.da.dims)
        THEN interp(s1, "Y", "center", boundary, nm) ELSE s1

\* mutant of to_v: the Y interpolation goes to the centers
to_v_center(st, boundary, nm) ==
    LET s1 == IF ~In("xi_rho", st.da.dims)
              THEN interp(st, "X", "center", boundary, nm) ELSE st
    IN  IF ~In("eta_v", s1.da.dims)
        THEN interp(s1, "Y", "center", boundary, nm) ELSE s1

to_v(st, boundary, nm) ==
    LET s1 == IF ~In("xi_rho", st.da.dims)
              THEN interp(st, "X", "center", boundary, nm) ELSE st
    IN  IF ~In("eta_v", s1.da.dims)
        THEN interp(s1, "Y", "inner", boundary, nm) ELSE s1

\* mutant of to_s_rho: the DataArray is returned as it is
to_s_rho_never(st, boundary, nm) == st

to_s_rho(st, boundary, nm) ==
    IF ~In("s_rho", st.da.dims)
    THEN interp(st, "Z", "center", boundary, nm) ELSE st

\* mutant of to_s_w: the test for s_w is missing
to_s_w_always(st, boundary, nm) == interp(st, "Z", "outer", boundary, nm)

to_s_w(st, boundary, nm) ==
    IF ~In("s_w", st.da.dims)
    THEN interp(st, "Z", "outer", boundary, nm) ELSE st

\* lines 176-185: the horizontal part; the to_* are called with their
\* default boundary
hstep(st, hcoord, nm) ==
    IF hcoord = None THEN [st EXCEPT !.status = "ok"]
    ELSE IF hcoord \notin {"rho", "psi", "u", "v"}
         THEN [st EXCEPT !.status = "AssertionError"]
    ELSE [status |-> "ok"] @@
         (CASE hcoord = "rho" -> to_rho(st, "extend", nm)
            [] hcoord = "psi" -> to_psi(st, "extend", nm)
            [] hcoord = "u"   -> to_u(st, "extend", nm)
            [] hcoord = "v"   -> to_v(st, "extend", nm))

\* mutant of sstep: 'rho' is taken for the vertical w grid
sstep_rho_is_w(st, scoord, nm) ==
    IF scoord = None THEN [st EXCEPT !.status = "ok"]
    ELSE IF scoord \notin {"s_rho", "rho", "s_w", "w"}
         THEN [st EXCEPT !.status = "AssertionError"]
    ELSE [status |-> "ok"] @@
         (IF scoord \in {"s_rho"}
          THEN to_s_rho(st, "extend", nm)
          ELSE to_s_w(st, "extend", nm))

\* lines 187-192: the vertical part
sstep(st, scoord, nm) ==
    IF scoord = None THEN [st EXCEPT !.status = "ok"]
    ELSE IF scoord \notin {"s_rho", "rho", "s_w", "w"}
         THEN [st EXCEPT !.status = "AssertionError"]
    ELSE [status |-> "ok"] @@
         (IF scoord \in {"s_rho", "rho"}
          THEN to_s_rho(st, "extend", nm)
          ELSE to_s_w(st, "extend", nm))

\* mutant of set_name: the name is not restored
set_name_skip(st, name) == st

\* var.name = name
set_name(st, name) == [st EXCEPT !.da.name = name]

\* to_grid(var, grid, hcoord, scoord): status is "ok" with the returned
\* DataArray in da, or "AssertionError"; calls are the grid.interp calls issued
to_grid(v, hcoord, scoord, nm) ==
    LET name == v.name
        s0 == [status |-> "ok", da |-> v, calls |-> <<>>, names |-> <<>>]
        s1 == hstep(s0, hcoord, nm)
        s2 == IF s1.status = "ok" THEN sstep(s1, scoord, nm) ELSE s1
    IN  IF s2.status = "ok" THEN set_name(s2, name) ELSE s2

(***************************************************************************)
(* The callers of to_grid.                                                 *)
(***************************************************************************)
\* the DataArrays of a ROMS dataset: every horizontal and vertical position
Fields ==
    {[dims |-> <<"ocean_time", z, y, x>>, name |-> n, data |-> <<>>] :
        z \in {"s_rho", "s_w"}, y \in {"eta_rho", "eta_v"},
        x \in {"xi_rho", "xi_u"}, n \in {"salt", "u"}}

\* hcoord and scoord as callers pass them; "vert" and "psi" are not accepted
HArgs == {None, "rho", "psi", "u", "v", "vert"}

SArgs == {None, "s_rho", "rho", "s_w", "w", "psi"}

\* the names the grid object may give the result of grid.interp
InterpNames(v) == {v.name, None}

\* again: the call repeats the arguments of the call before it, which
\* succeeded (so its input is what that call returned)
NoCall ==
    [hcoord |-> None, scoord |-> None, input |-> <<>>, status |-> "none",
     calls |-> <<>>, names |-> <<>>, result |-> <<>>, again |-> FALSE]

GridIdle ==
    /\ last = NoCall
    /\ ncalls = 0

IsoIdle ==
    /\ pc = "idle"
    /\ iso_array = <<>>
    /\ iso_value = Zero
    /\ projected_array = <<>>
    /\ out = <<>>

InitGrid ==
    /\ IsoIdle
    /\ GridIdle
    /\ var \in Fields

\* var = to_grid(var, grid, hcoord, scoord): on success the caller keeps the
\* returned DataArray, on failure the one it had
ToGrid ==
    /\ ncalls < MaxCalls
    /\ \E h \in HArgs, s \in SArgs, nm \in InterpNames(var) :
         LET r == to_grid(var, h, s, nm)
         IN  /\ last' = [hcoord |-> h, scoord |-> s, input |-> var,
                         status |-> r.status, calls |-> r.calls,
                         names |-> r.names,
                         result |-> IF r.status = "ok" THEN r.da ELSE <<>>,
                         again |-> /\ last.status = "ok"
                                   /\ last.hcoord = h
                                   /\ last.scoord = s]
             /\ var' = IF r.status = "ok" THEN r.da ELSE var
    /\ ncalls' = ncalls + 1
    /\ UNCHANGED isoVars

NextGrid == ToGrid

SpecGrid == InitGrid /\ [][NextGrid]_vars

(***************************************************************************)
(* The callers of xisoslice.                                               *)
(***************************************************************************)
\* the caller holds the arguments of the call it is about to make: a
\* two-column array of the enumerated columns, or one of the examples
InitIso ==
    /\ pc = "idle"
    /\ out = <<>>
    /\ \/ \E ref \in RefColumns, t \in Targets :
            \E proj \in ProjColumns(ref), other \in OtherColumns(Len(ref)) :
              /\ iso_array = <<ref, other[1]>>
              /\ iso_value = t
              /\ projected_array = <<proj, other[2]>>
       \/ \E e \in Examples :
              /\ iso_array = e[1]
              /\ iso_value = e[2]
              /\ projected_array = e[3]
    /\ GridIdle
    /\ var = <<>>

\* out = xisoslice(iso_array, iso_value, projected_array, coord)
CallXisoslice ==
    /\ pc = "idle"
    /\ out' = xisoslice(iso_array, iso_value, projected_array)
    /\ pc' = "done"
    /\ UNCHANGED <<iso_array, iso_value, projected_array>>
    /\ UNCHANGED gridVars

NextIso == CallXisoslice

SpecIso == InitIso /\ [][NextIso]_vars

(***************************************************************************)
(* ddz, ddxi, ddeta and id_grid (utilities.py 199-290, 319-340).  Here a   *)
(* DataArray also carries its attribute dictionary attrs: the keys name,   *)
(* long_name and units, each a string or Absent.  The attrs argument of a  *)
(* derivative is <<>> for None and <<dictionary>> otherwise.               *)
(***************************************************************************)
Absent == "absent"

NoAttrs == [name |-> Absent, long_name |-> Absent, units |-> Absent]

\* lines 217-219: the keys missing from var.attrs are set, on var itself
set_defaults(v) ==
    [v EXCEPT !.attrs =
        [name      |-> IF @.name = Absent THEN "var" ELSE @.name,
         long_name |-> IF @.long_name = Absent THEN "var" ELSE @.long_name,
         units     |-> IF @.units = Absent THEN "units" ELSE @.units]]

\* lines 220-221, 252-253, 284-285: var.name is the name of the DataArray,
\* var.long_name and var.units are looked up in var.attrs
derived_attrs(v, axis, kind) ==
    [name      |-> "d" \o v.name \o "d" \o axis,
     long_name |-> kind \o " derivative of " \o v.attrs.long_name,
     units     |-> "1/m * " \o v.attrs.units]

\* mutant of set_attrs: the attributes the grid steps left are kept
set_attrs_keep(da, attrs) == da

\* var.attrs = attrs
set_attrs(da, attrs) == [da EXCEPT !.attrs = attrs]

\* the position conjugate to the one a dimension is at
Flip(d) ==
    CASE d = "xi_rho"  -> "xi_u"
      [] d = "xi_u"    -> "xi_rho"
      [] d = "eta_rho" -> "eta_v"
      [] d = "eta_v"   -> "eta_rho"
      [] d = "s_rho"   -> "s_w"
      [] d = "s_w"     -> "s_rho"
      [] OTHER         -> d

\* the result of the grid operation step that differences along the axes in
\* axes: their dimensions move to the conjugate position; the grid object
\* names the result nm and, when it gives no name, gives no attributes either
differenced(v, axes, step, nm) ==
    [v EXCEPT !.dims  = [i \in DOMAIN v.dims |->
                            IF AxisOf(v.dims[i]) \in axes
                            THEN Flip(v.dims[i]) ELSE v.dims[i]],
              !.name  = nm,
              !.data  = Append(v.data, step),
              !.attrs = IF nm = None THEN NoAttrs ELSE v.attrs]

\* grid.derivative(var, axis, boundary=boundary, fill_value=fill_value)
derivative(v, axis, boundary, nm) ==
    [da     |-> differenced(v, {axis}, <<"derivative", axis>>, nm),
     derivs |-> <<[axis |-> axis, boundary |-> boundary]>>]

\* xroms.hgrad(var, grid, which=which, hboundary=..., sboundary=...): the
\* derivatives of var and of its depths along the horizontal axis and along
\* Z, combined; the result has one point less along both axes
hgrad(v, which, hboundary, sboundary, nm) ==
    LET axis == IF which = "xi" THEN "X" ELSE "Y"
    IN  [da     |-> differenced(v, {axis, "Z"}, <<"hgrad", which>>, nm),
         derivs |-> <<[axis |-> axis, boundary |-> hboundary],
                      [axis |-> "Z",  boundary |-> sboundary],
                      [axis |-> axis, boundary |-> hboundary],
                      [axis |-> "Z",  boundary |-> sboundary]>>]

\* lines 216-219, 248-251, 280-283: without attrs the defaults are set first
prepared(v, attrs) == IF attrs = <<>> THEN set_defaults(v) ELSE v

\* the common body of ddz, ddxi and ddeta, lines 220-226, 252-258, 284-290:
\* v1 is the prepared input and d the result of the grid step (lines 223,
\* 255, 287) on it.  status is "ok" with the returned DataArray in da, or
\* the exception raised; input is the caller's DataArray as the call leaves
\* it, derivs and calls the grid.derivative and grid.interp calls issued
dd(v1, attrs, hcoord, scoord, axis, kind, d, nm) ==
    IF attrs = <<>> /\ v1.name = None
    THEN [status |-> "TypeError", input |-> v1, derivs |-> <<>>,
          calls |-> <<>>, names |-> <<>>, da |-> <<>>]
    ELSE LET a == IF attrs = <<>>
                  THEN derived_attrs(v1, axis, kind) ELSE attrs[1]
             r == to_grid(d.da, hcoord, scoord, nm)
         IN  [status |-> r.status, input |-> v1, derivs |-> d.derivs,
              calls |-> r.calls, names |-> r.names,
              da |-> IF r.status = "ok" THEN set_attrs(r.da, a) ELSE <<>>]

ddz(v, attrs, hcoord, scoord, sboundary, nm) ==
    LET v1 == prepared(v, attrs)
    IN  dd(v1, attrs, hcoord, scoord, "z", "vertical",
           derivative(v1, "Z", sboundary, nm), nm)

ddxi(v, attrs, hcoord, scoord, hboundary, sboundary, nm) ==
    LET v1 == prepared(v, attrs)
    IN  dd(v1, attrs, hcoord, scoord, "xi", "horizontal xi",
           hgrad(v1, "xi", hboundary, sboundary, nm), nm)

ddeta(v, attrs, hcoord, scoord, hboundary, sboundary, nm) ==
    LET v1 == prepared(v, attrs)
    IN  dd(v1, attrs, hcoord, scoord, "eta", "horizontal eta",
           hgrad(v1, "eta", hboundary, sboundary, nm), nm)

\* da.dims.count(d)
count(dims, d) == Cardinality({i \in DOMAIN dims : dims[i] = d})

\* lines 328-340; a call that reaches the end of the function returns None
id_grid(da) ==
    IF count(da.dims, "eta_rho") + count(da.dims, "xi_rho") = 2 THEN "rho"
    ELSE IF \/ count(da.dims, "eta_rho") + count(da.dims, "xi_u") = 2
            \/ count(da.dims, "eta_u") + count(da.dims, "xi_u") = 2 THEN "u"
    ELSE IF \/ count(da.dims, "eta_v") + count(da.dims, "xi_rho") = 2
            \/ count(da.dims, "eta_v") + count(da.dims, "xi_v") = 2 THEN "v"
    ELSE IF \/ count(da.dims, "eta_v") + count(da.dims, "xi_u") = 2
            \/ count(da.dims, "eta_psi") + count(da.dims, "xi_psi") = 2 THEN "psi"
    ELSE IF count(da.dims, "eta_vert") + count(da.dims, "xi_vert") = 2 THEN "vert"
    ELSE None

\* the dimensions of what xisoslice returns (lines 485-490): the sums along
\* coord remove that dimension; the result of the arithmetic has no name and
\* no attributes
xisoslice_dims(v, coord) ==
    LET keep(d) == d # coord
    IN  [dims  |-> SelectSeq(v.dims, keep),
         name  |-> None,
         data  |-> Append(v.data, <<"xisoslice", coord>>),
         attrs |-> NoAttrs]

(***************************************************************************)
(* The callers of the derivatives.                                         *)
(***************************************************************************)
\* the attribute dictionaries the DataArrays of a dataset come with
AttrDicts ==
    {NoAttrs,
     [name |-> Absent, long_name |-> Absent, units |-> "psu"],
     [name |-> Absent, long_name |-> "salinity", units |-> "psu"],
     [name |-> "salt", long_name |-> "salinity", units |-> "psu"]}

\* the DataArrays handed to the derivatives: every position, named or not
DerivFields ==
    {[dims |-> f.dims, name |-> n, data |-> <<>>, attrs |-> a] :
        f \in {g \in Fields : g.name = "salt"}, n \in {"salt", None},
        a \in AttrDicts}

\* the attrs argument: None, or a dictionary of the caller
AttrArgs ==
    {<<>>, <<[name |-> "dSdz", long_name |-> "salinity gradient",
              units |-> "psu/m"]>>}

\* the boundary argument
Boundaries == {"extend", "fill"}

InitDeriv ==
    /\ IsoIdle
    /\ GridIdle
    /\ var \in DerivFields

\* what a call leaves behind: the caller's DataArray as it is now, and the
\* record of the call
Leaves(op, h, s, attrs, hb, sb, r) ==
    /\ last' = [op |-> op, hcoord |-> h, scoord |-> s, attrs |-> attrs,
                hboundary |-> hb, sboundary |-> sb, input |-> var,
                status |-> r.status, derivs |-> r.derivs, calls |-> r.calls,
                names |-> r.names, result |-> r.da]
    /\ var' = r.input
    /\ pc' = IF r.status = "ok" THEN "returned" ELSE "raised"
    /\ UNCHANGED <<iso_array, iso_value, projected_array, out, ncalls>>

\* xroms.ddz(var, grid, attrs, hcoord, scoord, sboundary)
CallDdz ==
    /\ pc = "idle"
    /\ \E h \in HArgs, s \in SArgs, attrs \in AttrArgs, sb \in Boundaries,
          nm \in InterpNames(var) :
         Leaves("ddz", h, s, attrs, None, sb, ddz(var, attrs, h, s, sb, nm))

\* xroms.ddxi(var, grid, attrs, hcoord, scoord, hboundary, ., sboundary)
CallDdxi ==
    /\ pc = "idle"
    /\ \E h \in HArgs, s \in SArgs, attrs \in AttrArgs,
          hb \in Boundaries, sb \in Boundaries, nm \in InterpNames(var) :
         Leaves("ddxi", h, s, attrs, hb, sb,
                ddxi(var, attrs, h, s, hb, sb, nm))

\* xroms.ddeta(var, grid, attrs, hcoord, scoord, hboundary, ., sboundary)
CallDdeta ==
    /\ pc = "idle"
    /\ \E h \in HArgs, s \in SArgs, attrs \in AttrArgs,
          hb \in Boundaries, sb \in Boundaries, nm \in InterpNames(var) :
         Leaves("ddeta", h, s, attrs, hb, sb,
                ddeta(var, attrs, h, s, hb, sb, nm))

\* xroms.to_grid(var, grid, hcoord, scoord)
CallToGrid ==
    /\ pc = "idle"
    /\ \E h \in HArgs, s \in SArgs, nm \in InterpNames(var) :
         LET r == to_grid(var, h, s, nm)
         IN  Leaves("to_grid", h, s, <<>>, None, None,
                    [status |-> r.status, input |-> var, derivs |-> <<>>,
                     calls |-> r.calls, names |-> r.names,
                     da |-> IF r.status = "ok" THEN r.da ELSE <<>>])

\* xroms.xisoslice(iso_array, iso_value, var, coord), coord a dimension of var
CallXisosliceAlong ==
    /\ pc = "idle"
    /\ \E i \in DOMAIN var.dims :
         Leaves("xisoslice", None, None, <<>>, None, None,
                [status |-> "ok", input |-> var, derivs |-> <<>>,
                 calls |-> <<>>, names |-> <<>>,
                 da |-> xisoslice_dims(var, var.dims[i])])

\* xroms.id_grid(result) on the DataArray the call before returned
CallIdGrid ==
    /\ pc = "returned"
    /\ out' = id_grid(last.result)
    /\ pc' = "identified"
    /\ UNCHANGED <<iso_array, iso_value, projected_array>>
    /\ UNCHANGED gridVars

NextDeriv ==
    \/ CallDdz
    \/ CallDdxi
    \/ CallDdeta
    \/ CallToGrid
    \/ CallXisosliceAlong
    \/ CallIdGrid

SpecDeriv == InitDeriv /\ [][NextDeriv]_vars

(***************************************************************************)
(* The values grid.interp gives along Z (to_s_rho, to_s_w, utilities.py    *)
(* 141-156).  A DataArray here is one column along Z: column holds the     *)
(* samples it started with and data the regrid steps applied since.        *)
(***************************************************************************)
mean(a, b) == FDiv(FAdd(a, b), Two)

\* cell centres to cell faces with boundary 'extend': one more point; each
\* face is the mean of the two samples next to it, the edge sample standing
\* in for the missing neighbour
to_outer(c) ==
    Eval([k \in 1..(Len(c) + 1) |->
            mean(c[IF k = 1 THEN 1 ELSE k - 1],
                 c[IF k > Len(c) THEN Len(c) ELSE k])])

\* cell faces to cell centres: one point less, each the mean of its two faces
to_center(f) == Eval([k \in 1..(Len(f) - 1) |-> mean(f[k], f[k + 1])])

\* the samples after the first n steps of steps
RECURSIVE applied(_, _, _)
applied(c, steps, n) ==
    IF n = 0 THEN c
    ELSE LET b == applied(c, steps, n - 1)
         IN  IF steps[n] = <<"Z", "outer">> THEN to_outer(b) ELSE to_center(b)

\* the samples of the DataArray
values(da) == applied(da.column, da.data, Len(da.data))

\* columns on s_rho with the enumerated samples
Columns ==
    {[dims |-> <<"s_rho">>, name |-> "salt", data |-> <<>>, column |-> c] :
        c \in RefColumns}

InitRegrid ==
    /\ pc = "idle"
    /\ iso_array = <<>>
    /\ iso_value = Zero
    /\ projected_array = <<>>
    /\ var \in Columns
    /\ out = var.column
    /\ GridIdle

\* var = op(var, grid) for op one of to_s_w, to_s_rho; out are the samples
\* of the DataArray the caller now holds
Regridded(op, r) ==
    /\ last' = [op |-> op, input |-> var, calls |-> r.calls]
    /\ var' = r.da
    /\ out' = values(r.da)
    /\ ncalls' = ncalls + 1
    /\ UNCHANGED <<pc, iso_array, iso_value, projected_array>>

CallToSW ==
    /\ ncalls < MaxCalls
    /\ Regridded("to_s_w",
                 to_s_w([da |-> var, calls |-> <<>>, names |-> <<>>],
                        "extend", var.name))

CallToSRho ==
    /\ ncalls < MaxCalls
    /\ Regridded("to_s_rho",
                 to_s_rho([da |-> var, calls |-> <<>>, names |-> <<>>],
                          "extend", var.name))

NextRegrid ==
    \/ CallToSW
    \/ CallToSRho

SpecRegrid == InitRegrid /\ [][NextRegrid]_vars

(***************************************************************************)
(* The value of xroms.hgrad (called by ddxi, utilities.py 255, and ddeta,  *)
(* 287) at one point: dqdxi = dqdx*dzdz - dqdz*dzdx (accessor.py 515).     *)
(* The point is given by the differences of q and of the depths z between  *)
(* its neighbours along xi at fixed s (dq_x, dz_x, a distance dx apart)    *)
(* and along s (dq_s, dz_s, an index step ds apart).                       *)
(***************************************************************************)
\* grid.derivative: the difference of the values over the distance
slope(dv, dc) == FDiv(dv, dc)

\* mutant of dqdxi: the metric term is added
dqdxi_added(dqdx, dzdz, dqdz, dzdx) ==
    FAdd(FMul(dqdx, dzdz), FMul(dqdz, dzdx))

dqdxi(dqdx, dzdz, dqdz, dzdx) ==
    FSub(FMul(dqdx, dzdz), FMul(dqdz, dzdx))

\* the derivatives along X are over the distance dx, those along Z over
\* the depth difference dz_s
hgrad_value(p) ==
    LET dqdx == slope(p.dq_x, p.dx)
        dzdz == slope(p.dz_s, p.dz_s)
        dqdz == slope(p.dq_s, p.dz_s)
        dzdx == slope(p.dz_x, p.dx)
    IN  dqdxi(dqdx, dzdz, dqdz, dzdx)

\* differences of q and z: integers up to MaxRef in size; the layers have a
\* positive thickness, the distances are 1 or 2
Differences == {Rat(k, 1) : k \in (0 - MaxRef)..MaxRef}

Thicknesses == {Rat(k, 1) : k \in 1..MaxRef}

Distances == {One, Two}

InitMetric ==
    /\ pc = "idle"
    /\ iso_array = <<>>
    /\ iso_value = Zero
    /\ projected_array = <<>>
    /\ out = <<>>
    /\ \E a \in Differences, b \in Differences, c \in Differences :
         \E t \in Thicknesses, dx \in Distances, ds \in Distances :
           var = [dq_x |-> a, dq_s |-> b, dz_x |-> c, dz_s |-> t,
                  dx |-> dx, ds |-> ds]
    /\ GridIdle

\* the value of xroms.hgrad(var, grid, which='xi') at the point
CallHgrad ==
    /\ pc = "idle"
    /\ out' = hgrad_value(var)
    /\ pc' = "done"
    /\ UNCHANGED <<iso_array, iso_value, projected_array>>
    /\ UNCHANGED gridVars

NextMetric == CallHgrad

SpecMetric == InitMetric /\ [][NextMetric]_vars

(***************************************************************************)
(* The grid operations of the DataArray accessor (accessor.py 866-1257).   *)
(***************************************************************************)
\* lines 947-949, 1039-1041, 1140-1142, 1241-1243: the first statement of
\* each of the four methods
raise_KeyError(da) ==
    [status |-> "KeyError", input |-> da, derivs |-> <<>>, calls |-> <<>>,
     names |-> <<>>, da |-> <<>>]

\* da.xroms.to_grid(xgrid, hcoord, scoord, hboundary, ., sboundary, .)
accessor_to_grid(da, hcoord, scoord, hboundary, sboundary) ==
    raise_KeyError(da)

\* da.xroms.ddz(xgrid, hcoord, scoord, hboundary, ., sboundary, ., attrs)
accessor_ddz(da, hcoord, scoord, hboundary, sboundary, attrs) ==
    raise_KeyError(da)

\* da.xroms.ddxi(xgrid, hcoord, scoord, hboundary, ., sboundary, ., attrs)
accessor_ddxi(da, hcoord, scoord, hboundary, sboundary, attrs) ==
    raise_KeyError(da)

\* da.xroms.ddeta(xgrid, hcoord, scoord, hboundary, ., sboundary, ., attrs)
accessor_ddeta(da, hcoord, scoord, hboundary, sboundary, attrs) ==
    raise_KeyError(da)

\* the DataArray the accessor was made for
InitAccessor ==
    /\ IsoIdle
    /\ GridIdle
    /\ var \in DerivFields

AccessorToGrid ==
    /\ pc = "idle"
    /\ \E h \in HArgs, s \in SArgs, hb \in Boundaries, sb \in Boundaries :
         Leaves("da.to_grid", h, s, <<>>, hb, sb,
                accessor_to_grid(var, h, s, hb, sb))

AccessorDdz ==
    /\ pc = "idle"
    /\ \E h \in HArgs, s \in SArgs, hb \in Boundaries, sb \in Boundaries,
          attrs \in AttrArgs :
         Leaves("da.ddz", h, s, attrs, hb, sb,
                accessor_ddz(var, h, s, hb, sb, attrs))

AccessorDdxi ==
    /\ pc = "idle"
    /\ \E h \in HArgs, s \in SArgs, hb \in Boundaries, sb \in Boundaries,
          attrs \in AttrArgs :
         Leaves("da.ddxi", h, s, attrs, hb, sb,
                accessor_ddxi(var, h, s, hb, sb, attrs))

AccessorDdeta ==
    /\ pc = "idle"
    /\ \E h \in HArgs, s \in SArgs, hb \in Boundaries, sb \in Boundaries,
          attrs \in AttrArgs :
         Leaves("da.ddeta", h, s, attrs, hb, sb,
                accessor_ddeta(var, h, s, hb, sb, attrs))

NextAccessor ==
    \/ AccessorToGrid
    \/ AccessorDdz
    \/ AccessorDdxi
    \/ AccessorDdeta

SpecAccessor == InitAccessor /\ [][NextAccessor]_vars

(***************************************************************************)
(* Properties of xisoslice, checked under SpecIso.                         *)
(***************************************************************************)
Done == pc = "done"

\* a < b, for finite values
FLess(a, b) == IsFinite(a) /\ IsFinite(b) /\ a.n * b.d < b.n * a.d

Cols == DOMAIN iso_array

Brackets(c) == 1..(Len(c) - 1)

Increasing(c) == \A k \in Brackets(c) : FLess(c[k], c[k + 1])

Decreasing(c) == \A k \in Brackets(c) : FLess(c[k + 1], c[k])

StrictlyMonotonic(c) == Increasing(c) \/ Decreasing(c)

\* t lies strictly between the samples k and k+1 of c
Between(c, t, k) ==
    \/ FLess(c[k], t) /\ FLess(t, c[k + 1])
    \/ FLess(c[k + 1], t) /\ FLess(t, c[k])

\* t lies between the samples k and k+1 of c, the ends included
Encloses(c, t, k) ==
    /\ ~(FLess(c[k], t) /\ FLess(c[k + 1], t))
    /\ ~(FLess(t, c[k]) /\ FLess(t, c[k + 1]))

EqualsNoSample(c, t) == \A k \in DOMAIN c : c[k] # t

\* two consecutive samples of c are both equal to t
FlatAtTarget(c, t) == \E k \in Brackets(c) : c[k] = t /\ c[k + 1] = t

\* p[k] + (t - c[k]) * (p[k+1] - p[k]) / (c[k+1] - c[k])
Interpolated(c, p, t, k) ==
    FAdd(p[k], FDiv(FMul(FSub(t, c[k]), FSub(p[k + 1], p[k])), FSub(c[k + 1], c[k])))

\* C1: in every column where the reference is strictly monotonic and the
\* target lies strictly between the samples k and k+1, the result is the
\* linear interpolation of the projected field in that bracket; the two
\* documented scenarios give 2.5.
C1_Interpolates ==
    Done =>
      /\ \A j \in Cols : \A k \in Brackets(iso_array[j]) :
            (StrictlyMonotonic(iso_array[j]) /\ Between(iso_array[j], iso_value, k))
              => out[j] = Interpolated(iso_array[j], projected_array[j], iso_value, k)
      /\ (/\ iso_array = <<Ints(<<0, 1, 2, 3, 4>>)>>
          /\ projected_array = iso_array
          /\ iso_value = Rat(5, 2)) => out = <<Rat(5, 2)>>
      /\ (/\ iso_array = <<Ints(<<10, 8, 6, 4, 2>>)>>
          /\ projected_array = <<Ints(<<0, 1, 2, 3, 4>>)>>
          /\ iso_value = Rat(5, 1)) => out = <<Rat(5, 2)>>

C1_Witness ==
    /\ Done
    /\ iso_array = <<Ints(<<10, 8, 6, 4, 2>>)>>
    /\ iso_value = Rat(5, 1)
    /\ out = <<Rat(5, 2)>>

\* the samples of c are equally spaced, with a non-zero step
LinearInIndex(c) ==
    /\ c[1] # c[2]
    /\ \A k \in 1..(Len(c) - 2) : FSub(c[k + 1], c[k]) = FSub(c[k + 2], c[k + 1])

InteriorSample(c, t) == \E k \in 2..(Len(c) - 1) : c[k] = t

\* C2: for a reference linear in index with the projected field equal to
\* the reference and a target equal to an interior sample, the result is
\* the target.
C2_ExactInterior ==
    Done =>
      \A j \in Cols :
        (/\ LinearInIndex(iso_array[j])
         /\ projected_array[j] = iso_array[j]
         /\ InteriorSample(iso_array[j], iso_value))
          => out[j] = iso_value

C2_Witness ==
    /\ Done
    /\ iso_array = <<Ints(<<0, 1, 2, 3, 4>>)>>
    /\ projected_array = iso_array
    /\ iso_value = Rat(2, 1)
    /\ out = <<Rat(2, 1)>>

\* C3: in every column with two consecutive reference samples equal to the
\* target, the result is not-a-number.
C3_FlatIsNaN ==
    Done =>
      \A j \in Cols : FlatAtTarget(iso_array[j], iso_value) => IsNaN(out[j])

\* C4 as claimed: the denominator is zero only in a column with two
\* consecutive reference samples equal to the target.
C4_ZeroOnlyWhenFlat ==
    Done =>
      LET den == denominator(iso_array, iso_value)
      IN  \A j \in Cols : den[j] = Zero => FlatAtTarget(iso_array[j], iso_value)

NoBracket(c, t) == \A k \in Brackets(c) : ~Encloses(c, t, k)

\* c rises in one bracket and falls in another
NonMonotonic(c) ==
    /\ \E k \in Brackets(c) : FLess(c[k], c[k + 1])
    /\ \E k \in Brackets(c) : FLess(c[k + 1], c[k])

SeveralBrackets(c, t) ==
    \E k, m \in Brackets(c) : k # m /\ Encloses(c, t, k) /\ Encloses(c, t, m)

\* C4, amended: the denominator is zero only in a column with two
\* consecutive samples equal to the target, or with no bracket enclosing
\* the target, or with a non-monotonic reference that has several brackets
\* enclosing the target; in a strictly monotonic column with a bracket
\* enclosing the target it is not zero.
C4_ZeroDenominator ==
    Done =>
      LET den == denominator(iso_array, iso_value)
      IN  \A j \in Cols :
            /\ den[j] = Zero
                 => \/ FlatAtTarget(iso_array[j], iso_value)
                    \/ NoBracket(iso_array[j], iso_value)
                    \/ /\ NonMonotonic(iso_array[j])
                       /\ SeveralBrackets(iso_array[j], iso_value)
            /\ (StrictlyMonotonic(iso_array[j]) /\ ~NoBracket(iso_array[j], iso_value))
                 => den[j] # Zero

C4_Witness ==
    /\ Done
    /\ \E j \in Cols :
         /\ denominator(iso_array, iso_value)[j] = Zero
         /\ ~FlatAtTarget(iso_array[j], iso_value)
         /\ SeveralBrackets(iso_array[j], iso_value)
         /\ IsNaN(out[j])

\* the brackets of c in which c truly crosses t
Crossings(c, t) == {k \in Brackets(c) : Between(c, t, k)}

SeveralCrossings(c, t) == EqualsNoSample(c, t) /\ Cardinality(Crossings(c, t)) >= 2

\* C5 as claimed: with several true crossings the result is the
\* interpolated value of one of the crossing brackets.
C5_OneBracketValue ==
    Done =>
      \A j \in Cols :
        SeveralCrossings(iso_array[j], iso_value)
          => \E k \in Crossings(iso_array[j], iso_value) :
               out[j] = Interpolated(iso_array[j], projected_array[j], iso_value, k)

RECURSIVE SumOver(_, _)
SumOver(S, f) ==
    IF S = {} THEN Zero
    ELSE LET k == CHOOSE x \in S : TRUE
         IN  FAdd(f[k], SumOver(S \ {k}, f))

\* the bracket whose ends are the sums of the lower and of the upper ends
\* of the brackets S of c
SummedBracket(c, S) ==
    <<SumOver(S, [k \in S |-> c[k]]), SumOver(S, [k \in S |-> c[k + 1]])>>

\* C5, amended: with several true crossings the result is the linear
\* interpolation to zero in the single bracket whose ends are the sums of
\* the ends of the crossing brackets (of reference minus target and of
\* the projected field), halved when exactly two brackets cross.
C5_SummedBracketValue ==
    Done =>
      \A j \in Cols :
        SeveralCrossings(iso_array[j], iso_value)
          => LET X == Crossings(iso_array[j], iso_value)
                 c == SummedBracket(prop(iso_array, iso_value)[j], X)
                 p == SummedBracket(projected_array[j], X)
                 v == Interpolated(c, p, Zero, 1)
             IN  out[j] = IF Cardinality(X) = 2 THEN FDiv(v, Two) ELSE v

C5_Witness ==
    /\ Done
    /\ \E j \in Cols :
         /\ SeveralCrossings(iso_array[j], iso_value)
         /\ IsFinite(out[j])
         /\ \A k \in Crossings(iso_array[j], iso_value) :
              out[j] # Interpolated(iso_array[j], projected_array[j], iso_value, k)

\* C6: the result has one value per column, and the value of a column is
\* what xisoslice returns for the array made of that column alone.
C6_ColumnIndependence ==
    Done =>
      /\ DOMAIN out = Cols
      /\ \A j \in Cols :
           /\ DOMAIN out[j] = {"n", "d"}
           /\ out[j] = xisoslice(<<iso_array[j]>>, iso_value, <<projected_array[j]>>)[1]

C6_Witness ==
    /\ Done
    /\ Len(iso_array) = 2
    /\ check(zc(iso_array, iso_value))[2]
    /\ ~check(zc(iso_array, iso_value))[1]
    /\ IsFinite(out[1])
    /\ out[1] # Zero

(***************************************************************************)
(* Properties of to_grid, checked under SpecGrid.                          *)
(***************************************************************************)
Called == last.status # "none"

Returned == last.status = "ok"

\* C7: a to_grid call that repeats the arguments of the successful call
\* before it, on the DataArray that call returned, returns that DataArray
\* and issues no grid.interp call.
C7_Idempotent ==
    last.again =>
      /\ Returned
      /\ last.calls = <<>>
      /\ last.result = last.input

C7_Witness ==
    /\ last.again
    /\ last.hcoord = "psi"
    /\ last.scoord = "w"
    /\ Len(last.input.data) = 3
    /\ last.result = last.input

\* C8: a to_grid call with an hcoord or scoord that is not accepted fails
\* with the assertion error, and has issued no grid.interp call.
C8_InvalidBeforeInterp ==
    (/\ Called
     /\ \/ last.hcoord \notin {None, "rho", "psi", "u", "v"}
        \/ last.scoord \notin {None, "s_rho", "rho", "s_w", "w"})
      => /\ last.status = "AssertionError"
         /\ last.calls = <<>>

\* the dimension hcoord and scoord ask for on an axis, None if none
Requested(axis, hcoord, scoord) ==
    CASE axis = "X" -> (CASE hcoord \in {"rho", "v"}   -> "xi_rho"
                          [] hcoord \in {"psi", "u"}   -> "xi_u"
                          [] OTHER                     -> None)
      [] axis = "Y" -> (CASE hcoord \in {"rho", "u"}   -> "eta_rho"
                          [] hcoord \in {"psi", "v"}   -> "eta_v"
                          [] OTHER                     -> None)
      [] axis = "Z" -> (CASE scoord \in {"s_rho", "rho"} -> "s_rho"
                          [] scoord \in {"s_w", "w"}     -> "s_w"
                          [] OTHER                       -> None)

CallsOn(axis) == {i \in DOMAIN last.calls : last.calls[i].axis = axis}

\* C9: a successful to_grid call issues exactly one grid.interp call for
\* each of the axes X, Y, Z whose dimension differs from the requested
\* one, and none for the other axes.
C9_CallCount ==
    Returned =>
      /\ \A axis \in {"X", "Y", "Z"} :
           Cardinality(CallsOn(axis)) =
             IF /\ Requested(axis, last.hcoord, last.scoord) # None
                /\ ~In(Requested(axis, last.hcoord, last.scoord), last.input.dims)
             THEN 1 ELSE 0
      /\ Cardinality(CallsOn("X") \cup CallsOn("Y")) <= 2
      /\ Cardinality(CallsOn("Z")) <= 1
      /\ (last.hcoord = None /\ last.scoord = None) => last.calls = <<>>

C9_Witness ==
    /\ Returned
    /\ Len(last.calls) = 3
    /\ last.input.dims = <<"ocean_time", "s_rho", "eta_rho", "xi_rho">>
    /\ last.result.dims = <<"ocean_time", "s_w", "eta_v", "xi_u">>

\* C10: the DataArray a successful to_grid call returns has the name of
\* the DataArray it was given.
C10_KeepsName ==
    Returned => last.result.name = last.input.name

C10_Witness ==
    /\ Returned
    /\ Len(last.names) = 3
    /\ \A i \in DOMAIN last.names : last.names[i] # last.input.name
    /\ last.result.name = last.input.name

(***************************************************************************)
(* Properties of ddz, ddxi, ddeta and id_grid, checked under SpecDeriv.    *)
(***************************************************************************)
AfterCall == pc # "idle"

IsDerivative == last.op \in {"ddz", "ddxi", "ddeta"}

\* C11: every grid.interp call issued by the final grid change of a ddz,
\* ddxi or ddeta call uses the boundary the caller supplied: sboundary for
\* a call on Z and, where the caller can supply it, hboundary for a call on
\* X or Y.
C11_BoundaryPassThrough ==
    (AfterCall /\ IsDerivative) =>
      \A i \in DOMAIN last.calls :
        IF last.calls[i].axis = "Z"
        THEN last.calls[i].boundary = last.sboundary
        ELSE last.op = "ddz" \/ last.calls[i].boundary = last.hboundary

\* C12: a call of ddz, ddxi, ddeta, to_grid or xisoslice, successful or
\* failed, leaves the DataArray it was given as it was before the call:
\* dimensions, values, name and attribute dictionary.
C12_InputUnchanged ==
    AfterCall => var = last.input

Succeeded == AfterCall /\ last.status = "ok"

\* the attribute dictionary documented for the derivative of the DataArray
\* named salt with long_name salinity and units psu
Documented(op) ==
    CASE op = "ddz"   -> [name |-> "dsaltdz",
                          long_name |-> "vertical derivative of salinity",
                          units |-> "1/m * psu"]
      [] op = "ddxi"  -> [name |-> "dsaltdxi",
                          long_name |-> "horizontal xi derivative of salinity",
                          units |-> "1/m * psu"]
      [] op = "ddeta" -> [name |-> "dsaltdeta",
                          long_name |-> "horizontal eta derivative of salinity",
                          units |-> "1/m * psu"]

\* C13: the DataArray ddz, ddxi or ddeta returns has exactly the supplied
\* attrs when the caller supplies them and, when not, exactly the name
\* 'd' + input name + 'd' + axis, the long_name '<kind> derivative of ' +
\* input long_name and the units '1/m * ' + input units of an input that
\* has a name, a long_name and units; what the derivative and regrid steps
\* left in the attributes is gone.
C13_OutputAttrs ==
    (Succeeded /\ IsDerivative) =>
      IF last.attrs # <<>>
      THEN last.result.attrs = last.attrs[1]
      ELSE (/\ last.input.name = "salt"
            /\ last.input.attrs.long_name = "salinity"
            /\ last.input.attrs.units = "psu")
             => last.result.attrs = Documented(last.op)

\* ddxi without attrs on a fully described input, with two regrid steps
\* after the derivative, all of which kept the attributes of the input
C13_Witness ==
    /\ Succeeded
    /\ last.op = "ddxi"
    /\ last.attrs = <<>>
    /\ last.input.attrs = [name |-> "salt", long_name |-> "salinity",
                           units |-> "psu"]
    /\ Len(last.calls) = 2
    /\ \A i \in DOMAIN last.names : last.names[i] = "salt"
    /\ last.result.attrs = Documented("ddxi")

\* the attribute dictionary documented for the derivative of an input
\* without name, long_name and units
Fallback(op) ==
    CASE op = "ddz"   -> [name |-> "dvardz",
                          long_name |-> "vertical derivative of var",
                          units |-> "1/m * units"]
      [] op = "ddxi"  -> [name |-> "dvardxi",
                          long_name |-> "horizontal xi derivative of var",
                          units |-> "1/m * units"]
      [] op = "ddeta" -> [name |-> "dvardeta",
                          long_name |-> "horizontal eta derivative of var",
                          units |-> "1/m * units"]

ValidCoords ==
    /\ last.hcoord \in {None, "rho", "psi", "u", "v"}
    /\ last.scoord \in {None, "s_rho", "rho", "s_w", "w"}

\* C14: ddz, ddxi or ddeta called without attrs, with valid hcoord and
\* scoord, on a DataArray that has no name, no long_name and no units
\* succeeds, and the attributes of the result are the defaults built from
\* 'var', 'var' and 'units'.
C14_FallbackDefaults ==
    (/\ AfterCall
     /\ IsDerivative
     /\ ValidCoords
     /\ last.attrs = <<>>
     /\ last.input.name = None
     /\ last.input.attrs = NoAttrs)
      => /\ last.status = "ok"
         /\ last.result.attrs = Fallback(last.op)

\* C15: a ddz, ddxi or ddeta call that fails on an unsupported hcoord or
\* scoord has issued no grid.derivative and no grid.interp call and has
\* left its input as it was.
C15_FailsBeforeComputation ==
    (AfterCall /\ IsDerivative /\ last.status = "AssertionError") =>
      /\ last.derivs = <<>>
      /\ last.calls = <<>>
      /\ var = last.input

\* the horizontal position the dimensions of a DataArray stand for
PositionOf(dims) ==
    CASE In("xi_rho", dims) /\ In("eta_rho", dims) -> "rho"
      [] In("xi_u", dims)   /\ In("eta_rho", dims) -> "u"
      [] In("xi_rho", dims) /\ In("eta_v", dims)   -> "v"
      [] In("xi_u", dims)   /\ In("eta_v", dims)   -> "psi"
      [] OTHER                                     -> None

\* C18: id_grid gives every DataArray that to_grid, ddz or xisoslice
\* returned one of the positions rho, u, v, psi, the one its xi and eta
\* dimensions stand for.
C18_PositionTotal ==
    (pc = "identified" /\ last.op \in {"to_grid", "ddz", "xisoslice"}) =>
      /\ out \in {"rho", "u", "v", "psi"}
      /\ out = PositionOf(last.result.dims)

(***************************************************************************)
(* Properties of the regrid values, checked under SpecRegrid.              *)
(***************************************************************************)
\* the caller regridded a column on s_rho with to_s_w and then with to_s_rho
RoundTrip ==
    /\ ncalls >= 2
    /\ last.op = "to_s_rho"
    /\ last.input.data = <<<<"Z", "outer">>>>

Interior(c) == 2..(Len(c) - 1)

\* C16: after to_s_w and then to_s_rho on a column of cell-centre samples,
\* every interior sample has its original value.
C16_RoundTripExact ==
    RoundTrip =>
      /\ Len(out) = Len(var.column)
      /\ \A i \in Interior(var.column) : out[i] = var.column[i]

\* (c[i-1] + 2 c[i] + c[i+1]) / 4
Smoothed(c, i) ==
    FDiv(FAdd(FAdd(c[i - 1], FMul(Two, c[i])), c[i + 1]), Rat(4, 1))

\* C16, amended: after to_s_w and then to_s_rho every interior sample is
\* (c[i-1] + 2 c[i] + c[i+1]) / 4 of the original samples c, which is the
\* original sample exactly where c[i-1] + c[i+1] = 2 c[i].
C16_RoundTripSmooths ==
    RoundTrip =>
      /\ Len(out) = Len(var.column)
      /\ \A i \in Interior(var.column) :
           /\ out[i] = Smoothed(var.column, i)
           /\ (out[i] = var.column[i]) <=>
                (FAdd(var.column[i - 1], var.column[i + 1])
                   = FMul(Two, var.column[i]))

C16_Witness ==
    /\ RoundTrip
    /\ \E i \in Interior(var.column) :
         /\ var.column[i - 1] = Zero
         /\ var.column[i] = One
         /\ var.column[i + 1] = Zero
         /\ out[i] = Rat(1, 2)

(***************************************************************************)
(* Properties of the metric correction, checked under SpecMetric.          *)
(***************************************************************************)
\* dq/dx|s - (dq/ds) * (dz/dx|s) / (dz/ds), with the derivatives along s
\* taken over the index step ds
Corrected(p) ==
    FSub(FDiv(p.dq_x, p.dx),
         FDiv(FMul(FDiv(p.dq_s, p.ds), FDiv(p.dz_x, p.dx)),
              FDiv(p.dz_s, p.ds)))

FullName(scoord) ==
    CASE scoord = "rho" -> "s_rho"
      [] scoord = "w"   -> "s_w"
      [] OTHER          -> scoord

\* the dimensions of the axes in axes are those of the input
SameDims(axes) ==
    \A i \in DOMAIN last.input.dims :
      AxisOf(last.input.dims[i]) \in axes
        => last.result.dims[i] = last.input.dims[i]

\* C19: a to_grid call with scoord 'rho' ('w') has the outcome, result
\* and grid.interp calls of the call with scoord 's_rho' ('s_w') on the
\* same DataArray; a successful call without hcoord issues no call on X or
\* Y and leaves the horizontal dimensions, one without scoord issues no
\* call on Z and leaves the vertical dimension.
C19_Aliases ==
    /\ (Called /\ last.scoord \in {"rho", "w"}) =>
         \A nm \in InterpNames(last.input) :
           (\A i \in DOMAIN last.names : last.names[i] = nm) =>
             LET r == to_grid(last.input, last.hcoord,
                              FullName(last.scoord), nm)
             IN  /\ r.status = last.status
                 /\ r.calls = last.calls
                 /\ Returned => r.da = last.result
    /\ (Returned /\ last.hcoord = None) =>
         /\ CallsOn("X") \cup CallsOn("Y") = {}
         /\ SameDims({"X", "Y"})
    /\ (Returned /\ last.scoord = None) =>
         /\ CallsOn("Z") = {}
         /\ SameDims({"Z"})

C19_Witness ==
    /\ Returned
    /\ last.hcoord = None
    /\ last.scoord = "rho"
    /\ last.input.dims = <<"ocean_time", "s_w", "eta_v", "xi_u">>
    /\ last.calls = <<[axis |-> "Z", to |-> "center", boundary |-> "extend"]>>
    /\ last.result.dims = <<"ocean_time", "s_rho", "eta_v", "xi_u">>

(***************************************************************************)
(* Properties of the DataArray accessor, checked under SpecAccessor.       *)
(***************************************************************************)
\* C20: da.xroms.to_grid with valid hcoord and scoord returns a DataArray
\* on the requested horizontal and vertical grids, and da.xroms.ddz, ddxi
\* and ddeta return a DataArray.
C20_AccessorReturns ==
    (AfterCall /\ ValidCoords) =>
      /\ last.status = "ok"
      /\ last.op = "da.to_grid" =>
           \A axis \in {"X", "Y", "Z"} :
             Requested(axis, last.hcoord, last.scoord) # None =>
               In(Requested(axis, last.hcoord, last.scoord), last.result.dims)

(***************************************************************************)
(* sel2d and argsel2d (utilities.py 6-105).  A dataset is the projected    *)
(* position <<x, y>> of every node of the chosen grid, node[iy][ix], and   *)
(* the naming of its horizontal dimensions.  The projection is cartopy's:  *)
(* the model starts from projected positions.                              *)
(***************************************************************************)
\* lines 62-64
grids == {"rho", "u", "v", "psi", "vert"}

\* the dimensions <<eta, xi>> of the fields of a grid: "native" datasets
\* name them after the grid (the second alternative of lines 331-337),
\* "xroms" datasets as to_u, to_v and to_psi do (lines 116-138, 328-337)
GridDims(naming, g) ==
    IF naming = "native" \/ g \in {"rho", "vert"}
    THEN <<"eta_" \o g, "xi_" \o g>>
    ELSE CASE g = "u" -> <<"eta_rho", "xi_u">>
           [] g = "v" -> <<"eta_v", "xi_rho">>
           [] OTHER -> <<"eta_v", "xi_u">>

\* lines 75, 85: (x - x0)**2 + (y - y0)**2; the roots are compared by their
\* squares
dist(n, p) ==
    (n[1] - p[1]) * (n[1] - p[1]) + (n[2] - p[2]) * (n[2] - p[2])

\* row-major order of index tuples of one length
Before(a, b) ==
    \E i \in DOMAIN a :
        /\ a[i] < b[i]
        /\ \A j \in 1..(i - 1) : a[j] = b[j]

RECURSIVE where(_)
\* np.where: the index tuples of the true entries, in row-major order
where(S) ==
    IF S = {} THEN <<>>
    ELSE LET first == CHOOSE a \in S : \A b \in S \ {a} : Before(a, b)
         IN <<first>> \o where(S \ {first})

\* dist.min(): the least distance of the nodes to the point
dist_min(node, p) ==
    LET all == {dist(node[iy][ix], p) :
                   iy \in DOMAIN node, ix \in DOMAIN node[1]}
    IN CHOOSE m \in all : \A d \in all : m <= d

\* lines 71-76: the scalar branch, the pairs <<iy, ix>>
where_scalar(node, p) ==
    LET m == dist_min(node, p)
    IN where({<<iy, ix>> \in (DOMAIN node) \X (DOMAIN node[1]) :
                 dist(node[iy][ix], p) = m})

\* lines 77-89: the array branch; dist has the axes (eta, xi, pts), the
\* minimum is taken over eta and xi, and [:2] drops the point index
where_points(node, pts) ==
    LET found == where({t \in (DOMAIN node) \X (DOMAIN node[1]) \X (DOMAIN pts) :
                           dist(node[t[1]][t[2]], pts[t[3]])
                               = dist_min(node, pts[t[3]])})
    IN [k \in DOMAIN found |-> <<found[k][1], found[k][2]>>]

\* lines 97-105: ds.isel over the dimensions 'xi_' + whichgrid and
\* 'eta_' + whichgrid, one entry per index pair along "pts"
isel(ds, whichgrid, pairs) ==
    LET dims == GridDims(ds.naming, whichgrid)
    IN IF "eta_" \o whichgrid = dims[1] /\ "xi_" \o whichgrid = dims[2]
       THEN [status |-> "ok",
             subset |-> [k \in DOMAIN pairs |->
                            ds.node[pairs[k][1]][pairs[k][2]]]]
       ELSE [status |-> "ValueError", subset |-> <<>>]

\* sel2d(ds, lon0, lat0, whichgrid=whichgrid, argsel=argsel); the point or
\* points are pts, scalar tells a single int or float point from a list
sel2d(ds, pts, scalar, whichgrid, argsel) ==
    IF whichgrid \notin grids
    THEN [status |-> "AssertionError", pairs |-> <<>>, subset |-> <<>>]
    ELSE LET pairs == IF scalar THEN where_scalar(ds.node, pts[1])
                      ELSE where_points(ds.node, pts)
             sub == isel(ds, whichgrid, pairs)
         IN IF argsel
            THEN [status |-> "ok", pairs |-> pairs, subset |-> <<>>]
            ELSE [status |-> sub.status, pairs |-> pairs,
                  subset |-> sub.subset]

\* lines 6-28
argsel2d(ds, pts, scalar, whichgrid) == sel2d(ds, pts, scalar, whichgrid, TRUE)

\* projected node positions: the corners of a square of side MaxRef
Nodes == {0, MaxRef} \X {0, MaxRef}

\* grids of two rows (eta) of two nodes (xi), no two nodes at one position
NodeGrids ==
    {g \in {<<<<a, b>>, <<c, d>>>> : a \in Nodes, b \in Nodes,
                                    c \in Nodes, d \in Nodes} :
        Cardinality({g[1][1], g[1][2], g[2][1], g[2][2]}) = Cardinality(Nodes)}

\* projected points of the square
Points == (0..MaxRef) \X (0..MaxRef)

\* a list of one or two points
PointLists == {<<p>> : p \in Points} \cup (Points \X Points)

WhichGrids == {"rho", "u", "w"}

InitSel ==
    /\ IsoIdle
    /\ GridIdle
    /\ \E n \in NodeGrids, naming \in {"native", "xroms"} :
         var = [node |-> n, naming |-> naming]

Selected(op, pts, scalar, whichgrid, r) ==
    /\ pc = "idle"
    /\ last' = [op |-> op, points |-> pts, scalar |-> scalar,
                whichgrid |-> whichgrid, status |-> r.status,
                pairs |-> r.pairs]
    /\ out' = r.subset
    /\ pc' = IF r.status = "ok" THEN "returned" ELSE "raised"
    /\ UNCHANGED <<iso_array, iso_value, projected_array, var, ncalls>>

\* xroms.argsel2d(ds, lon0, lat0, whichgrid) for one point
CallArgsel2d ==
    \E p \in Points, g \in WhichGrids :
        Selected("argsel2d", <<p>>, TRUE, g, argsel2d(var, <<p>>, TRUE, g))

\* xroms.argsel2d(ds, lon0, lat0, whichgrid) for a list of points
CallArgsel2dList ==
    \E pts \in PointLists, g \in WhichGrids :
        Selected("argsel2d", pts, FALSE, g, argsel2d(var, pts, FALSE, g))

\* xroms.sel2d(ds, lon0, lat0, whichgrid=whichgrid) for one point
CallSel2d ==
    \E p \in Points, g \in WhichGrids :
        Selected("sel2d", <<p>>, TRUE, g, sel2d(var, <<p>>, TRUE, g, FALSE))

\* xroms.sel2d(ds, lon0, lat0, whichgrid=whichgrid) for a list of points
CallSel2dList ==
    \E pts \in PointLists, g \in WhichGrids :
        Selected("sel2d", pts, FALSE, g, sel2d(var, pts, FALSE, g, FALSE))

NextSel == CallArgsel2d \/ CallArgsel2dList \/ CallSel2d \/ CallSel2dList

SpecSel == InitSel /\ [][NextSel]_vars

(***************************************************************************)
(* Properties of sel2d and argsel2d, checked under SpecSel.                *)
(***************************************************************************)
Selecting == pc # "idle" /\ last.whichgrid \in grids

\* the node <<iy, ix>> is one of the nodes nearest to the point p
Nearest(pair, p) ==
    /\ pair[1] \in DOMAIN var.node
    /\ pair[2] \in DOMAIN var.node[1]
    /\ \A iy \in DOMAIN var.node, ix \in DOMAIN var.node[1] :
         dist(var.node[pair[1]][pair[2]], p) <= dist(var.node[iy][ix], p)

\* C21: for a single scalar point, every index pair returned by argsel2d or
\* computed by sel2d is <<iy, ix>> of a node of the chosen grid at minimal
\* projected distance to the point, and sel2d returns the dataset subset
\* at exactly those indices.
C21_ScalarNearest ==
    (Selecting /\ last.scalar) =>
        /\ last.pairs # <<>>
        /\ \A k \in DOMAIN last.pairs : Nearest(last.pairs[k], last.points[1])
        /\ last.op = "sel2d" =>
             /\ pc = "returned"
             /\ out = [k \in DOMAIN last.pairs |->
                          var.node[last.pairs[k][1]][last.pairs[k][2]]]

\* C22: for a list of points, the result has one index pair per input point
\* and the k-th pair is a node nearest to the k-th point.
C22_PairPerPoint ==
    (Selecting /\ ~last.scalar) =>
        /\ Len(last.pairs) = Len(last.points)
        /\ \A k \in DOMAIN last.pairs : Nearest(last.pairs[k], last.points[k])

(***************************************************************************)
(* build_indexer (utilities.py 293-316).  A dimension name is the sequence *)
(* of its characters; an argument is <<>> for None or <<value>>.           *)
(***************************************************************************)
\* dim[:n]
prefix(dim, n) == SubSeq(dim, 1, IF n < Len(dim) THEN n ELSE Len(dim))

\* word in dim
contains(dim, word) ==
    \E i \in 1..Len(dim) :
        /\ i + Len(word) - 1 <= Len(dim)
        /\ SubSeq(dim, i, i + Len(word) - 1) = word

\* the tests of lines 300, 305, 309, 313
matches(axis, dim) ==
    CASE axis = "xi" -> prefix(dim, Len(<<"x", "i">>)) = <<"x", "i">>
      [] axis = "eta" -> prefix(dim, Len(<<"e", "t", "a">>)) = <<"e", "t", "a">>
      [] axis = "s" -> prefix(dim, Len(<<"s", "_">>)) = <<"s", "_">>
      [] axis = "t" -> contains(dim, <<"t", "i", "m", "e">>)

\* [...].index(True): the first position whose dimension matches, 0 when
\* list.index raises ValueError
index_True(axis, dims) ==
    IF \E i \in DOMAIN dims : matches(axis, dims[i])
    THEN CHOOSE i \in DOMAIN dims :
             /\ matches(axis, dims[i])
             /\ \A j \in 1..(i - 1) : ~matches(axis, dims[j])
    ELSE 0

\* indexer[key] = value on the dict held as a sequence of <<key, value>>
setitem(indexer, key, value) ==
    IF \E i \in DOMAIN indexer : indexer[i][1] = key
    THEN [i \in DOMAIN indexer |->
             IF indexer[i][1] = key THEN <<key, value>> ELSE indexer[i]]
    ELSE Append(indexer, <<key, value>>)

\* one of the four blocks of build_indexer, silently skipping an argument
\* whose dimension is absent
add_key_skip(st, dims, axis, arg) ==
    IF st.status # "ok" \/ arg = <<>> \/ index_True(axis, dims) = 0 THEN st
    ELSE [st EXCEPT !.indexer =
              setitem(st.indexer, dims[index_True(axis, dims)], arg[1])]

\* one of the four blocks of build_indexer (lines 298-314)
add_key(st, dims, axis, arg) ==
    IF st.status # "ok" \/ arg = <<>> THEN st
    ELSE IF index_True(axis, dims) = 0
         THEN [status |-> "ValueError", indexer |-> <<>>]
         ELSE [st EXCEPT !.indexer =
                   setitem(st.indexer, dims[index_True(axis, dims)], arg[1])]

\* build_indexer(da, xi, eta, s, t)
build_indexer(da, xi, eta, s, t) ==
    LET s0 == [status |-> "ok", indexer |-> <<>>]
        s1 == add_key(s0, da.dims, "xi", xi)
        s2 == add_key(s1, da.dims, "eta", eta)
        s3 == add_key(s2, da.dims, "s", s)
    IN add_key(s3, da.dims, "t", t)

\* dimension names of ROMS fields, and two that match no test
DimNames ==
    {<<"x", "i", "_", "r", "h", "o">>, <<"x", "i", "_", "u">>,
     <<"e", "t", "a", "_", "r", "h", "o">>,
     <<"s", "_", "r", "h", "o">>, <<"s", "_", "w">>,
     <<"o", "c", "e", "a", "n", "_", "t", "i", "m", "e">>,
     <<"p", "t", "s">>, <<"x">>}

\* the dimensions of a field: up to MaxLen distinct names
IndexedDims ==
    UNION {{t \in [1..n -> DimNames] :
               \A i, j \in 1..n : t[i] = t[j] => i = j} : n \in 0..MaxLen}

\* an argument: None or an index
IndexArgs == {<<>>, <<0>>, <<MaxRef>>}

InitIndexer ==
    /\ IsoIdle
    /\ GridIdle
    /\ \E t \in IndexedDims : var = [dims |-> t]

\* xroms.build_indexer(da, xi, eta, s, t)
CallBuildIndexer ==
    /\ pc = "idle"
    /\ \E xi \in IndexArgs, eta \in IndexArgs, s \in IndexArgs,
          t \in IndexArgs :
         LET r == build_indexer(var, xi, eta, s, t)
         IN /\ last' = [op |-> "build_indexer", status |-> r.status,
                        args |-> [xi |-> xi, eta |-> eta, s |-> s, t |-> t]]
            /\ out' = r.indexer
            /\ pc' = IF r.status = "ok" THEN "returned" ELSE "raised"
    /\ UNCHANGED <<iso_array, iso_value, projected_array, var, ncalls>>

NextIndexer == CallBuildIndexer

SpecIndexer == InitIndexer /\ [][NextIndexer]_vars

(***************************************************************************)
(* Properties of build_indexer, checked under SpecIndexer.                 *)
(***************************************************************************)
Axes == {"xi", "eta", "s", "t"}

\* the arguments of the call that are not None
Given == {a \in Axes : last.args[a] # <<>>}

\* the field has a dimension for the axis
HasDim(a) == \E i \in DOMAIN var.dims : matches(a, var.dims[i])

\* d is the field's first dimension that matches the axis
FirstDim(a, d) ==
    \E i \in DOMAIN var.dims :
        /\ var.dims[i] = d
        /\ matches(a, d)
        /\ \A j \in 1..(i - 1) : ~matches(a, var.dims[j])

\* C23: build_indexer fails when a non-None argument has no dimension with
\* its prefix on the field; otherwise the indexer has exactly one key per
\* non-None argument, the field's first dimension with that prefix, mapped
\* to the argument, and no other key.
C23_IndexerKeys ==
    pc # "idle" =>
        IF \E a \in Given : ~HasDim(a)
        THEN pc = "raised" /\ last.status = "ValueError" /\ out = <<>>
        ELSE /\ pc = "returned"
             /\ Len(out) = Cardinality(Given)
             /\ \A a \in Given :
                  \E k \in DOMAIN out :
                      /\ FirstDim(a, out[k][1])
                      /\ out[k][2] = last.args[a][1]
             /\ \A k \in DOMAIN out :
                  \E a \in Given : FirstDim(a, out[k][1])

\* an indexer of several keys, one of them the first of two dimensions with
\* the same prefix
C23_Witness ==
    /\ pc = "returned"
    /\ Len(out) > 1
    /\ \E a \in Given :
         \E i, j \in DOMAIN var.dims :
             i < j /\ matches(a, var.dims[i]) /\ matches(a, var.dims[j])

(***************************************************************************)
(* The Dataset accessor (accessor.py 25-829).  An accessor is a record:    *)
(* ds holds the variables stored under the keys of the cached properties,  *)
(* salt is the variable ds['salt'], copy the private copy _ds, xgrid the   *)
(* attribute _xgrid (<<>> while the accessor has none).  built, ran, ops   *)
(* and set count what has run: roms_dataset, the computation behind each   *)
(* key, the utilities calls, and the argument of the latest set_grid.      *)
(***************************************************************************)
\* number of successive operations on an accessor
MaxAccess == MaxCalls + 1

\* the storage keys of the cached properties
Keys ==
    {"speed", "KE", "ug", "vg", "EKE", "dudz", "dvdz", "shear", "vort",
     "ertel", "rho", "sig0", "buoyancy", "N2", "M2"}

\* lines 29-34; stored are the variables the dataset already holds under
\* storage keys
accessor(salt, stored) ==
    [ds    |-> [k \in stored |-> <<"stored", 0>>],
     salt  |-> salt,
     copy  |-> [n \in {salt.name} |-> salt],
     xgrid |-> <<>>,
     set   |-> <<>>,
     built |-> 0,
     ran   |-> [k \in Keys |-> 0],
     ops   |-> 0]

\* lines 38-46
set_grid(acc, g) == [acc EXCEPT !.xgrid = <<g>>, !.set = <<g>>]

\* roms_dataset(self.ds): the dataset with its grid coordinates, and the
\* grid object built for it
roms_dataset(acc) == [acc EXCEPT !.xgrid = <<"built">>, !.built = @ + 1]

\* mutant of xgrid: the grid is built on every access
xgrid_rebuild(acc) == roms_dataset(acc)

\* lines 48-53: the accessor after self.xgrid, whose value is xgrid[1]
xgrid(acc) == IF acc.xgrid = <<>> THEN roms_dataset(acc) ELSE acc

\* mutant of cached: the computation runs on every access
cached_always(acc, key, args) ==
    [args EXCEPT !.ds = (key :> <<"computed", args.ran[key] + 1>>) @@ @,
                 !.ran[key] = @ + 1]

\* the body of a cached property: args is the accessor after the arguments
\* of the computation were evaluated, which happens only when the key is
\* not in self.ds; the value of the property is ds[key] afterwards
cached(acc, key, args) ==
    IF key \in DOMAIN acc.ds THEN acc
    ELSE [args EXCEPT !.ds = (key :> <<"computed", args.ran[key] + 1>>) @@ @,
                      !.ran[key] = @ + 1]

speed(acc) == cached(acc, "speed", xgrid(acc))

KE(acc) == cached(acc, "KE", speed(acc))

ug(acc) == cached(acc, "ug", xgrid(acc))

vg(acc) == cached(acc, "vg", xgrid(acc))

EKE(acc) == cached(acc, "EKE", xgrid(vg(ug(acc))))

dudz(acc) == cached(acc, "dudz", xgrid(acc))

dvdz(acc) == cached(acc, "dvdz", xgrid(acc))

vertical_shear(acc) == cached(acc, "shear", xgrid(dvdz(dudz(acc))))

vort(acc) == cached(acc, "vort", xgrid(acc))

rho(acc) == cached(acc, "rho", acc)

sig0(acc) == cached(acc, "sig0", acc)

buoyancy(acc) == cached(acc, "buoyancy", sig0(acc))

ertel(acc) == cached(acc, "ertel", xgrid(buoyancy(acc)))

N2(acc) == cached(acc, "N2", xgrid(rho(acc)))

M2(acc) == cached(acc, "M2", xgrid(rho(acc)))

\* the two asserts on varname pass: varname is a str and is in self.ds
valid(acc, varname) ==
    /\ varname.isstr
    /\ varname.text \in {"salt"} \cup DOMAIN acc.ds

\* mutant of rejected: the grid is built before the asserts
rejected_late(acc) ==
    [status |-> "AssertionError", acc |-> xgrid(acc), returned |-> <<>>]

\* an assert on varname fails
rejected(acc) ==
    [status |-> "AssertionError", acc |-> acc, returned |-> <<>>]

\* utilities.to_grid and utilities.ddz take no hboundary, hfill_value,
\* sboundary (to_grid) or sfill_value (to_grid) keyword: the call fails
\* once its arguments, self.xgrid among them, are evaluated
unexpected_keyword(acc) ==
    [status |-> "TypeError", acc |-> xgrid(acc), returned |-> <<>>]

\* lines 545-546, 647-648: the call of the utilities function, with result
\* r, then self._ds[var.name] = var; return self._ds[var.name]
stored(acc, r) ==
    LET a1 == [xgrid(acc) EXCEPT !.salt = r.input, !.ops = @ + 1]
    IN  IF r.status # "ok"
        THEN [status |-> r.status, acc |-> a1, returned |-> <<>>]
        ELSE [status |-> "ok",
              acc |-> [a1 EXCEPT !.copy = (r.da.name :> r.da) @@ @],
              returned |-> <<r.da>>]

\* ds.xroms.ddxi(varname), lines 529-546
dataset_ddxi(acc, varname, nm) ==
    IF ~valid(acc, varname) THEN rejected(acc)
    ELSE stored(acc, ddxi(acc.salt, <<>>, None, None, "extend", "extend", nm))

\* ds.xroms.ddeta(varname), lines 631-648
dataset_ddeta(acc, varname, nm) ==
    IF ~valid(acc, varname) THEN rejected(acc)
    ELSE stored(acc, ddeta(acc.salt, <<>>, None, None, "extend", "extend", nm))

\* ds.xroms.ddz(varname), lines 725-742
dataset_ddz(acc, varname) ==
    IF ~valid(acc, varname) THEN rejected(acc) ELSE unexpected_keyword(acc)

\* ds.xroms.to_grid(varname), lines 813-829
dataset_to_grid(acc, varname) ==
    IF ~valid(acc, varname) THEN rejected(acc) ELSE unexpected_keyword(acc)

\* ds['salt'] of the dataset the accessor is made for
SaltFields ==
    {f \in DerivFields :
        /\ f.name = "salt"
        /\ id_grid(f) = "rho"
        /\ f.dims[2] = "s_rho"
        /\ f.attrs \in {NoAttrs, [name |-> "salt", long_name |-> "salinity",
                                  units |-> "psu"]}}

\* the varname argument: a variable of the dataset, a string that names
\* none, and a value that is no string
VarNames ==
    {[isstr |-> TRUE, text |-> "salt"], [isstr |-> TRUE, text |-> "pepper"],
     [isstr |-> FALSE, text |-> "0"]}

\* the grid objects of the caller
UserGrids == {"grid1", "grid2"}

InitDataset ==
    /\ IsoIdle
    /\ GridIdle
    /\ \E f \in SaltFields, held \in {{}, {"rho"}} : var = accessor(f, held)

\* one operation on the accessor: op with the arguments arg leaves the
\* accessor acc and returns the values in returned
Operated(op, arg, status, acc, returned) ==
    /\ ncalls < MaxAccess
    /\ ncalls' = ncalls + 1
    /\ var' = acc
    /\ last' = [op |-> op, arg |-> arg, status |-> status,
                returned |-> returned]
    /\ pc' = IF status = "ok" THEN "returned" ELSE "raised"
    /\ UNCHANGED <<iso_array, iso_value, projected_array, out>>

\* a property access: the stored variable is returned
Accessed(op, key, acc) == Operated(op, <<key>>, "ok", acc, <<acc.ds[key]>>)

SetGrid ==
    \E g \in UserGrids :
        Operated("set_grid", <<g>>, "ok", set_grid(var, g), <<>>)

AccessXgrid ==
    Operated("xgrid", <<>>, "ok", xgrid(var), xgrid(var).xgrid)

AccessSpeed == Accessed("speed", "speed", speed(var))

AccessKE == Accessed("KE", "KE", KE(var))

AccessUg == Accessed("ug", "ug", ug(var))

AccessVg == Accessed("vg", "vg", vg(var))

AccessEKE == Accessed("EKE", "EKE", EKE(var))

AccessDudz == Accessed("dudz", "dudz", dudz(var))

AccessDvdz == Accessed("dvdz", "dvdz", dvdz(var))

AccessVerticalShear == Accessed("vertical_shear", "shear", vertical_shear(var))

AccessVort == Accessed("vort", "vort", vort(var))

AccessErtel == Accessed("ertel", "ertel", ertel(var))

AccessRho == Accessed("rho", "rho", rho(var))

AccessSig0 == Accessed("sig0", "sig0", sig0(var))

AccessBuoyancy == Accessed("buoyancy", "buoyancy", buoyancy(var))

AccessN2 == Accessed("N2", "N2", N2(var))

AccessM2 == Accessed("M2", "M2", M2(var))

\* a grid method: r is its outcome
Method(op, varname, r) ==
    Operated(op, <<varname>>, r.status, r.acc, r.returned)

DatasetDdxi ==
    \E v \in VarNames, nm \in InterpNames(var.salt) :
        Method("ddxi", v, dataset_ddxi(var, v, nm))

DatasetDdeta ==
    \E v \in VarNames, nm \in InterpNames(var.salt) :
        Method("ddeta", v, dataset_ddeta(var, v, nm))

DatasetDdz == \E v \in VarNames : Method("ddz", v, dataset_ddz(var, v))

DatasetToGrid ==
    \E v \in VarNames : Method("to_grid", v, dataset_to_grid(var, v))

NextDataset ==
    \/ SetGrid \/ AccessXgrid
    \/ AccessSpeed \/ AccessKE \/ AccessUg \/ AccessVg \/ AccessEKE
    \/ AccessDudz \/ AccessDvdz \/ AccessVerticalShear \/ AccessVort
    \/ AccessErtel \/ AccessRho \/ AccessSig0 \/ AccessBuoyancy
    \/ AccessN2 \/ AccessM2
    \/ DatasetDdxi \/ DatasetDdeta \/ DatasetDdz \/ DatasetToGrid

SpecDataset == InitDataset /\ [][NextDataset]_vars

(***************************************************************************)
(* Properties of the Dataset accessor, checked under SpecDataset.          *)
(***************************************************************************)
\* the cached properties, by name
Properties == (Keys \ {"shear"}) \cup {"vertical_shear"}

\* the latest operation was an access of a cached property
PropertyAccess(l) == l.status # "none" /\ l.op \in Properties

XgridAccess(l) == l.status # "none" /\ l.op = "xgrid"

\* C29: over any sequence of set_grid calls and xgrid accesses roms_dataset
\* is invoked at most once per accessor and never after a set_grid call;
\* xgrid returns the grid of the most recent set_grid call, or the lazily
\* built grid if set_grid was never called; two consecutive xgrid accesses
\* return the same grid.
C29_GridSetup ==
    [][/\ var'.built <= 1
       /\ var.set # <<>> => var'.built = var.built
       /\ XgridAccess(last') =>
            last'.returned = IF var'.set # <<>> THEN var'.set ELSE <<"built">>
       /\ (XgridAccess(last) /\ XgridAccess(last')) =>
            last'.returned = last.returned]_vars

\* the grid was built lazily, then set_grid replaced it, and xgrid returns
\* the grid that was set
C29_Witness ==
    /\ XgridAccess(last)
    /\ var.built = 1
    /\ var.set # <<>>
    /\ last.returned = var.set

\* the latest operation was a grid method called with a varname that is no
\* string or names no variable of the dataset acc.ds
BadVarname(l, acc) ==
    /\ l.status # "none"
    /\ l.op \in {"ddxi", "ddeta", "ddz", "to_grid"}
    /\ ~(l.arg[1].isstr /\ l.arg[1].text \in {"salt"} \cup DOMAIN acc.ds)

\* C30: ddxi, ddeta, ddz and to_grid of the Dataset accessor called with a
\* varname that is not a string or not a variable of the dataset fail with
\* an assertion error before the grid is built and before any derivative or
\* regrid call, and leave the dataset and the private copy unchanged.
C30_AssertsFirst ==
    [][BadVarname(last', var) =>
          /\ last'.status = "AssertionError"
          /\ var'.xgrid = var.xgrid
          /\ var'.built = var.built
          /\ var'.ops = var.ops
          /\ var'.ds = var.ds
          /\ var'.salt = var.salt
          /\ var'.copy = var.copy]_vars

\* to_grid was rejected on an accessor that has no grid yet
C30_Witness ==
    /\ BadVarname(last, var)
    /\ last.op = "to_grid"
    /\ last.status = "AssertionError"
    /\ var.xgrid = <<>>
    /\ var.built = 0

(***************************************************************************)
(* Further properties of xisoslice, checked under SpecIso.                 *)
(***************************************************************************)
\* the brackets of column j that zc marks
Marked(z, j) == {k \in DOMAIN z[j] : z[j][k] = One}

\* C25: in every strictly monotonic column whose interior sample k equals
\* the target, zc marks exactly the brackets k-1 and k, and the halved
\* result is the value of the projected field at sample k.
C25_InteriorSampleValue ==
    Done =>
      LET z == zc(iso_array, iso_value)
      IN  \A j \in Cols : \A k \in 2..(Len(iso_array[j]) - 1) :
            (StrictlyMonotonic(iso_array[j]) /\ iso_array[j][k] = iso_value)
              => /\ Marked(z, j) = {k - 1, k}
                 /\ out[j] = projected_array[j][k]

\* the end sample of c that equals t: 1, Len(c), or 0 for none
EndSample(c, t) ==
    IF c[1] = t THEN 1 ELSE IF c[Len(c)] = t THEN Len(c) ELSE 0

Outside(c, t) ==
    \/ \A k \in DOMAIN c : FLess(c[k], t)
    \/ \A k \in DOMAIN c : FLess(t, c[k])

\* C28: in every column where the target lies strictly outside the range
\* of the reference samples the result is NaN, and a strictly monotonic
\* column of the same call that crosses the target has its interpolated
\* value.
C28_NoCrossingIsNaN ==
    Done =>
      /\ DOMAIN out = Cols
      /\ \A j \in Cols :
           Outside(iso_array[j], iso_value) => IsNaN(out[j])
      /\ \A i \in Cols, j \in Cols : \A k \in Brackets(iso_array[j]) :
           (/\ Outside(iso_array[i], iso_value)
            /\ StrictlyMonotonic(iso_array[j])
            /\ Between(iso_array[j], iso_value, k))
             => out[j] = Interpolated(iso_array[j], projected_array[j],
                                      iso_value, k)

\* a call with one column that the target misses and one that crosses it
C28_Witness ==
    /\ Done
    /\ \E i \in Cols, j \in Cols :
         /\ Outside(iso_array[i], iso_value)
         /\ IsNaN(out[i])
         /\ StrictlyMonotonic(iso_array[j])
         /\ \E k \in Brackets(iso_array[j]) : Between(iso_array[j], iso_value, k)
         /\ IsFinite(out[j])

(***************************************************************************)
(* Further properties of to_grid, checked under SpecGrid.                  *)
(***************************************************************************)
\* C26: from every horizontal position rho, u, v or psi and for every
\* hcoord of rho, psi, u, v, id_grid of what to_grid returns is hcoord; for
\* every scoord the result has the dimension s_rho (for 's_rho' or 'rho')
\* or s_w (for 's_w' or 'w') and not the other.
C26_LandsOnRequestedGrid ==
    /\ (/\ Called
        /\ last.hcoord \in {"rho", "psi", "u", "v"}
        /\ last.scoord \in {None, "s_rho", "rho", "s_w", "w"}) =>
         /\ Returned
         /\ id_grid(last.result) = last.hcoord
    /\ (/\ Called
        /\ last.hcoord \in {None, "rho", "psi", "u", "v"}
        /\ last.scoord \in {"s_rho", "rho", "s_w", "w"}) =>
         /\ Returned
         /\ In("s_rho", last.result.dims) <=> last.scoord \in {"s_rho", "rho"}
         /\ In("s_w", last.result.dims) <=> last.scoord \in {"s_w", "w"}

\* a field on the rho grid and the s_rho levels was taken to the v grid
\* and the w levels
C26_Witness ==
    /\ Returned
    /\ id_grid(last.input) = "rho"
    /\ In("s_rho", last.input.dims)
    /\ last.hcoord = "v"
    /\ last.scoord = "w"
    /\ id_grid(last.result) = "v"
    /\ In("s_w", last.result.dims)
    /\ ~In("s_rho", last.result.dims)

====
